---------------------------- MODULE Spec2Model ----------------------------
(***************************************************************************)
(* A model of the acquisition and retrieval pipeline of the Nestle chatbot *)
(* backend (src/unnamed/part_000, the server): the crawl loop of           *)
(* scrapeWebsite, GraphRAG.ingestContent, GraphRAG.queryRelatedConcepts,   *)
(* uploadToAzureSearch and the /api/chat handler.                          *)
(*                                                                         *)
(* Each part of the program has its own specification over the same        *)
(* variables; the variables of the other parts stay at their idle values.  *)
(*   SpecCrawl   scrapeWebsite                                             *)
(*   SpecIngest  GraphRAG.ingestContent against the graph store            *)
(*   SpecQuery   GraphRAG.queryRelatedConcepts                             *)
(*   SpecUpload  uploadToAzureSearch                                       *)
(*   SpecChat    app.post('/api/chat')                                     *)
(***************************************************************************)
EXTENDS Integers, Sequences, FiniteSets, TLC

VARIABLES
    \* ---- scrapeWebsite
    cpc,            \* position in scrapeWebsite
    browser,        \* "none" | "open" | "closed"
    queue,          \* const queue = [BASE_URL]
    visitedUrls,    \* const visitedUrls = new Set()
    scrapedData,    \* const scrapedData = []
    currentUrl,     \* const currentUrl = queue.shift()
    crawlLog,       \* the URLs of the "Crawling (n/MAX_PAGES): url" console lines
    refused,        \* history: shouldCrawl has turned down a visited URL
    pageData,       \* const pageData = await extractPageContent(currentUrl)
    extract,        \* how that call ended: "none" | "ok" | "gotoFailed" |
                    \* "waitTimedOut" | "evaluateFailed"
    present,        \* the page it loaded holds content items
    atCall,         \* history: <<visitedUrls, queue, scrapedData>> when
                    \* extractPageContent was called
    websiteContentCache,
    \* ---- the graph store and GraphRAG.ingestContent
    nodes,          \* the Content nodes; a node's position is its id(n)
    edges,          \* the RELATED_TO relationships, a bag of [from, to, context]
    ipc,            \* position in ingestContent
    content,        \* the argument of the call
    bi,             \* the loop index i of the batch whose write is in flight
    session,        \* "none" | "open" | "closed": the session of the call
    attempts,       \* history: the batch writes the call has issued
    settled,        \* history: how many of them have resolved or rejected
    writeFailed,    \* history: a write of the call was rejected
    before,         \* history: the store when the call began
    rerun,          \* history: the call repeats the content of the call
                    \* before it, which ended with no write rejected
    \* ---- GraphRAG.queryRelatedConcepts
    qpc,            \* position in queryRelatedConcepts
    rows,           \* the rows of MATCH (n)-[r:RELATED_TO]->(m) with their
                    \* similarity, in the order the store yields them
    qsession,       \* "none" | "open" | "closed"
    qresult,        \* the value the call returns
    qfailed,        \* history: session.run was rejected
    \* ---- uploadToAzureSearch
    upc,            \* position in uploadToAzureSearch
    validCount,     \* validDocuments.length
    droppedCount,   \* the items of content the filter drops
    ui,             \* the loop index i
    uploads,        \* history: the uploadDocuments calls, [from, to, ok]
    \* ---- app.post('/api/chat')
    hpc,            \* position in the handler
    message,        \* req.body.message is present
    lexical,        \* the full-text search: "none" | "pending" | "ok" | "failed"
    graph,          \* the graph query: "none" | "pending" | "ok" | "failed"
    llm,            \* the completion call: "none" | "pending" | "ok" | "failed"
    searchResults,  \* history: the documents the index returned, in its order
    searchContent,
    graphData,
    context,        \* the entries joined into the context string
    status,         \* the status of the response, 0 while there is none
    \* ---- initializeServices
    spc,            \* position in initializeServices
    retries,        \* let retries = 3
    scraped,        \* content.length of the attempt under way
    tries,          \* history: how each attempt ended
    pauses,         \* history: the pauses taken, in milliseconds
    raised,         \* the error the call rejects with, <<>> while there is none
    openBrowsers,   \* the browsers launched and not closed
    \* ---- GraphRAG.initializeSchema
    scpc,           \* position in initializeSchema
    ssession,       \* "none" | "open" | "closed"
    schema,         \* the constraint and the indexes the store holds
    sfailed,        \* history: a statement of the call was rejected
    sexists,        \* history: the rejection was that of CREATE INDEX for an
                    \* index the store holds already
    starts,         \* history: the calls of initializeSchema so far
    \* ---- ensureSearchIndex
    xpc,            \* position in ensureSearchIndex
    indexExists,    \* the search service holds the index
    checks,         \* history: what getIndex answered in each call, a status
    creates,        \* history: the calls that issued createIndex
    xraised,        \* the status of the error the call rejects with, <<>>
                    \* while there is none
    \* ---- prioritizeLinks
    kpc,            \* "idle" | "sorted"
    given,          \* history: the array as page.evaluate returned it
    arranged,       \* the array after links.sort(...), which is the value
                    \* prioritizeLinks returns
    \* ---- the Chatbot component
    wpc,            \* "idle" | "posting": axios.post is outstanding
    open,           \* const [open, setOpen] = useState(false)
    input,          \* const [input, setInput] = useState('')
    messages,       \* const [messages, setMessages] = useState([...])
    isLoading,      \* const [isLoading, setIsLoading] = useState(false)
    posted,         \* history: the message of each axios.post
    answered,       \* history: the text each request settled with
    blankSend,      \* history: the last event was a handleSend that returned
                    \* at its first line
    shown,          \* history: <<messages, input, isLoading>> before it
    \* ---- app.post('/api/graph/add-node')
    apc,            \* "idle" | "received" | "answered"
    reqBody,        \* req.body: userId, text, type, url
    resStatus,      \* the status of the response, 0 while there is none
    resJson,        \* the body of the response
    graphWrites,    \* the user nodes written to the graph
    served          \* history: the requests received so far

crawlVars == <<cpc, browser, queue, visitedUrls, scrapedData, currentUrl,
               crawlLog, refused, pageData, extract, present, atCall,
               websiteContentCache>>

ingestVars == <<nodes, edges, ipc, content, bi, session, attempts, settled,
                writeFailed, before, rerun>>

queryVars == <<qpc, rows, qsession, qresult, qfailed>>

uploadVars == <<upc, validCount, droppedCount, ui, uploads>>

chatVars == <<hpc, message, lexical, graph, llm, searchResults, searchContent,
              graphData, context, status>>

startVars == <<spc, retries, scraped, tries, pauses, raised, openBrowsers>>

schemaVars == <<scpc, ssession, schema, sfailed, sexists, starts>>

indexVars == <<xpc, indexExists, checks, creates, xraised>>

sortVars == <<kpc, given, arranged>>

widgetVars == <<wpc, open, input, messages, isLoading, posted, answered,
                blankSend, shown>>

addNodeVars == <<apc, reqBody, resStatus, resJson, graphWrites, served>>

vars == <<crawlVars, ingestVars, queryVars, uploadVars, chatVars, startVars,
          schemaVars, indexVars, sortVars, widgetVars, addNodeVars>>

notCrawl   == <<ingestVars, queryVars, uploadVars, chatVars, startVars,
                schemaVars, indexVars, sortVars, widgetVars, addNodeVars>>
notIngest  == <<crawlVars, queryVars, uploadVars, chatVars, startVars,
                schemaVars, indexVars, sortVars, widgetVars, addNodeVars>>
notQuery   == <<crawlVars, ingestVars, uploadVars, chatVars, startVars,
                schemaVars, indexVars, sortVars, widgetVars, addNodeVars>>
notUpload  == <<crawlVars, ingestVars, queryVars, chatVars, startVars,
                schemaVars, indexVars, sortVars, widgetVars, addNodeVars>>
notChat    == <<crawlVars, ingestVars, queryVars, uploadVars, startVars,
                schemaVars, indexVars, sortVars, widgetVars, addNodeVars>>
notStart   == <<crawlVars, ingestVars, queryVars, uploadVars, chatVars,
                schemaVars, indexVars, sortVars, widgetVars, addNodeVars>>
notSchema  == <<crawlVars, uploadVars, chatVars, startVars, indexVars,
                sortVars, widgetVars, addNodeVars>>
notIndex   == <<crawlVars, ingestVars, queryVars, uploadVars, chatVars,
                startVars, schemaVars, sortVars, widgetVars, addNodeVars>>
notSort    == <<crawlVars, ingestVars, queryVars, uploadVars, chatVars,
                startVars, schemaVars, indexVars, widgetVars, addNodeVars>>
notWidget  == <<crawlVars, ingestVars, queryVars, uploadVars, chatVars,
                startVars, schemaVars, indexVars, sortVars, addNodeVars>>
notAddNode == <<crawlVars, ingestVars, queryVars, uploadVars, chatVars,
                startVars, schemaVars, indexVars, sortVars, widgetVars>>

-----------------------------------------------------------------------------
(* Generic helpers on sequences.                                           *)

Range(s) == {s[i] : i \in 1..Len(s)}

Min(a, b) == IF a < b THEN a ELSE b

\* Array.prototype.slice(from, to) with 0-based from and exclusive to.
Slice(s, from, to) == SubSeq(s, from + 1, Min(to, Len(s)))

\* all sequences over S of length at most n
SeqsUpTo(S, n) == UNION {[1..k -> S] : k \in 0..n}

-----------------------------------------------------------------------------
(* URLs.  A URL is the sequence of its lexical tokens, so that             *)
(* String.prototype.startsWith and includes are decided on the text of the *)
(* URL: every substring the program tests for is a token of its own.       *)

BASE_URL == <<"https://www.madewithnestle.ca">>

Home       == BASE_URL \o <<"/">>
Recipe1    == BASE_URL \o <<"/recipe/", "brownies">>
Recipe2    == BASE_URL \o <<"/recipe/", "cookies">>
About      == BASE_URL \o <<"/about">>
FilterPage == BASE_URL \o <<"/", "recipes?f%5B", "0%5D=tag">>
TagFilter  == BASE_URL \o <<"/recipes?", "recipe_tags_filter", "=1">>
Fragment   == BASE_URL \o <<"/about", "#", "team">>
ShareLink  == BASE_URL \o <<"/share?u=", "facebook.com", "/nestle">>
TweetLink  == BASE_URL \o <<"/share?u=", "twitter.com", "/nestle">>
External   == <<"https://www.nestle.com", "/">>
\* another host whose name begins with the text of BASE_URL
LookAlike  == BASE_URL \o <<".example.net", "/">>
\* an href the URL parser rejects: a.href then yields the attribute text as
\* written, and new URL(link) throws a TypeError
Malformed  == BASE_URL \o <<":port", "/x">>

\* every form of URL the admission rules tell apart
UrlForms == {BASE_URL, Home, Recipe1, Recipe2, About, FilterPage, TagFilter,
             Fragment, ShareLink, TweetLink, External, LookAlike, Malformed}

\* what a[href].href yields on the pages of the crawled site: serialised
\* URLs, and the attribute text of an href that does not parse
Hrefs == {Home, Recipe1, Recipe2, LookAlike, FilterPage, Fragment, ShareLink,
          External, Malformed}

Includes(url, token) == \E i \in 1..Len(url) : url[i] = token

StartsWith(url, prefix) ==
    /\ Len(url) >= Len(prefix)
    /\ SubSeq(url, 1, Len(prefix)) = prefix

\* new URL(link) throws for a string that is no valid URL
ValidUrl(url) == ~Includes(url, ":port")

\* new URL(link).toString(): the serialisation of the parsed URL.  An origin
\* without a path gets the path "/"; a serialised URL is left as it is.
Normalize(url) == IF Len(url) = 1 THEN url \o <<"/">> ELSE url


-----------------------------------------------------------------------------
(* Text.  A text is the sequence of its characters.                        *)

Letters == {"a","b","c","d","e","f","g","h","i","j","k","l","m","n","o","p",
            "q","r","s","t","u","v","w","x","y","z",
            "A","B","C","D","E","F","G","H","I","J","K","L","M","N","O","P",
            "Q","R","S","T","U","V","W","X","Y","Z"}
Digits == {"0","1","2","3","4","5","6","7","8","9"}

\* the characters of the class a-zA-Z0-9
Alphanumerics == Letters \cup Digits

\* String.prototype.replace(/[^a-zA-Z0-9]/g, '_')
Sanitize(text) ==
    [i \in 1..Len(text) |->
        IF text[i] \in Alphanumerics THEN text[i] ELSE "_"]

\* String.prototype.substring(0, n)
Substring0(text, n) == SubSeq(text, 1, Min(n, Len(text)))

\* Cypher's CONTAINS, String.prototype.includes on a text
Contains(text, part) ==
    \E k \in 0..(Len(text) - Len(part)) :
        SubSeq(text, k + 1, k + Len(part)) = part

FunFacts     == <<"F","u","n"," ","F","a","c","t","s"," ","1">>
FunFactsDash == <<"F","u","n","-","F","a","c","t","s","-","1">>
FunFactsBody == FunFacts \o <<" ","a","r","e"," ","h","e","r","e",".">>
\* a text of exactly 10 characters
TooShort     == <<"F","u","n"," ","F","a","c","t","s","!">>

-----------------------------------------------------------------------------
(* GraphRAG.initializeSchema, and the session each call of GraphRAG opens. *)

\* a finally block that closes nothing
LeaveSession(s) == s

\* finally { await session.close(); }
CloseSession(s) == "closed"

\* the three statements of initializeSchema, in their order
SchemaStatements == <<"unique_node", "type_index", "url_index">>

\* the most starts of the process in a behaviour
MaxStarts == 3

SchemaIdle ==
    /\ starts = 0
    /\ scpc = 0
    /\ ssession = "none"
    /\ schema = {}
    /\ sfailed = FALSE
    /\ sexists = FALSE

\* CREATE CONSTRAINT unique_node IF NOT EXISTS does nothing when the store
\* holds the constraint; CREATE INDEX FOR ..., which has no IF NOT EXISTS, is
\* rejected when the store holds an equivalent index
Rejected(statement, held) == statement # "unique_node" /\ statement \in held

\* const session = this.driver.session(); the first session.run is awaited.
\* scpc is the number of the statement in flight, 4 while the session is
\* being closed and 5 when the call has returned; the call is made at every
\* start of the process.
SchemaBegin ==
    /\ scpc \in {0, Len(SchemaStatements) + 2}
    /\ starts < MaxStarts
    /\ starts' = starts + 1
    /\ ssession' = "open"
    /\ scpc' = 1
    /\ sfailed' = FALSE
    /\ sexists' = FALSE
    /\ UNCHANGED schema
    /\ UNCHANGED <<ingestVars, queryVars>>
    /\ UNCHANGED notSchema

\* await session.run(CREATE ...) resolves: the next statement, or the log
\* line and the finally block
StatementRun ==
    /\ scpc \in 1..Len(SchemaStatements)
    /\ ~Rejected(SchemaStatements[scpc], schema)
    /\ schema' = schema \cup {SchemaStatements[scpc]}
    /\ scpc' = scpc + 1
    /\ UNCHANGED <<ssession, sfailed, sexists, starts>>
    /\ UNCHANGED <<ingestVars, queryVars>>
    /\ UNCHANGED notSchema

\* await session.run(CREATE ...) rejects because the store cannot be reached
\* or fails: the catch logs the error, the statements after it are not run
StatementFails ==
    /\ scpc \in 1..Len(SchemaStatements)
    /\ sfailed' = TRUE
    /\ scpc' = Len(SchemaStatements) + 1
    /\ UNCHANGED <<ssession, schema, sexists, starts>>
    /\ UNCHANGED <<ingestVars, queryVars>>
    /\ UNCHANGED notSchema

\* await session.run(CREATE INDEX ...) rejects because the index exists: the
\* catch logs the error, the statements after it are not run
StatementExists ==
    /\ scpc \in 1..Len(SchemaStatements)
    /\ Rejected(SchemaStatements[scpc], schema)
    /\ sexists' = TRUE
    /\ scpc' = Len(SchemaStatements) + 1
    /\ UNCHANGED <<ssession, schema, sfailed, starts>>
    /\ UNCHANGED <<ingestVars, queryVars>>
    /\ UNCHANGED notSchema

\* finally { await session.close(); }
SchemaClose ==
    /\ scpc = Len(SchemaStatements) + 1
    /\ ssession' = CloseSession(ssession)
    /\ scpc' = Len(SchemaStatements) + 2
    /\ UNCHANGED <<schema, sfailed, sexists, starts>>
    /\ UNCHANGED <<ingestVars, queryVars>>
    /\ UNCHANGED notSchema

NextSchema ==
    \/ SchemaBegin
    \/ StatementRun
    \/ StatementFails
    \/ StatementExists
    \/ SchemaClose

-----------------------------------------------------------------------------
(* The graph store and GraphRAG.ingestContent.                             *)

\* const nodeBatchSize = 100 and const relBatchSize = 50, scaled down so that
\* a short content takes several batches of either kind
nodeBatchSize == 2
relBatchSize == 1

\* the longest content of one call
MaxContent == 3

GraphTypes == {"h1", "h2", "h3", "h4", "p", "li"}
HeadingTypes == {"h1", "h2", "h3", "h4"}

\* the content items the crawl of two pages can hand over
heading       == [type |-> "h2",   text |-> FunFacts,     url |-> Recipe1]
headingAsP    == [type |-> "p",    text |-> FunFacts,     url |-> Recipe1]
headingDashed == [type |-> "h3",   text |-> FunFactsDash, url |-> Recipe1]
body          == [type |-> "p",    text |-> FunFactsBody, url |-> Recipe1]
bodyElsewhere == [type |-> "li",   text |-> FunFactsBody, url |-> About]
shortHeading  == [type |-> "h1",   text |-> TooShort,     url |-> Recipe1]
spanItem      == [type |-> "span", text |-> FunFactsBody, url |-> Recipe1]
\* the { url, html } entry extractPageContent records: it has no type and no
\* text, which item.text && ... treats as it treats the empty string
htmlItem      == [type |-> "undefined", text |-> <<>>, url |-> Recipe1]

Items == {heading, headingAsP, headingDashed, body, bodyElsewhere,
          shortHeading, spanItem, htmlItem}

Contents == SeqsUpTo(Items, MaxContent)

\* what has been ingested before the calls of a behaviour
EarlierContents == {<<>>, <<heading, body>>}

\* id: `${item.url}-${item.text.substring(0, 50).replace(...)}`
contentId(item) ==
    item.url \o <<"-">> \o Sanitize(Substring0(item.text, 50))

\* the filter with >= 10 for > 10
isValidFromTen(item) ==
    /\ Len(item.text) > 0
    /\ Len(item.text) >= 10
    /\ item.type \in GraphTypes

\* the filter of validContent
isValid(item) ==
    /\ Len(item.text) > 0
    /\ Len(item.text) > 10
    /\ item.type \in GraphTypes

\* const validContent = content.filter(...).map(item => ({...item, id}))
validContent(c) ==
    LET kept == SelectSeq(c, isValid)
    IN  [k \in 1..Len(kept) |->
            [type |-> kept[k].type, text |-> kept[k].text,
             url |-> kept[k].url, id |-> contentId(kept[k])]]

isHeading(item) == item.type \in HeadingTypes

\* const headingContent = validContent.filter(...)
headingContent(c) == SelectSeq(validContent(c), isHeading)

\* MERGE (n:Content {id: item.id}) SET n.text, n.type, n.url for one row
MergeNode(ns, item) ==
    IF \E k \in 1..Len(ns) : ns[k].id = item.id
    THEN [k \in 1..Len(ns) |->
            IF ns[k].id = item.id
            THEN [id |-> item.id, text |-> item.text, type |-> item.type,
                  url |-> item.url]
            ELSE ns[k]]
    ELSE Append(ns, [id |-> item.id, text |-> item.text, type |-> item.type,
                     url |-> item.url])

\* UNWIND $batch AS item MERGE ... SET ...: the rows in order
RECURSIVE MergeNodes(_, _)
MergeNodes(ns, batch) ==
    IF batch = <<>> THEN ns
    ELSE MergeNodes(MergeNode(ns, Head(batch)), Tail(batch))

\* the rows without the test other.url = n.url
RelatedPairsAnyUrl(ns, item) ==
    {<<n, other>> \in (1..Len(ns)) \X (1..Len(ns)) :
        /\ ns[n].id = item.id
        /\ ns[other].type \in {"p", "li"}
        /\ Contains(ns[other].text, ns[n].text)
        /\ Len(ns[n].text) > 5
        /\ other # n}

\* the (n, other) rows the two MATCHes and the WHERE yield for one item
RelatedPairs(ns, item) ==
    {<<n, other>> \in (1..Len(ns)) \X (1..Len(ns)) :
        /\ ns[n].id = item.id
        /\ ns[other].url = ns[n].url
        /\ ns[other].type \in {"p", "li"}
        /\ Contains(ns[other].text, ns[n].text)
        /\ Len(ns[n].text) > 5
        /\ other # n}

relatedTo(pair) == [from |-> pair[1], to |-> pair[2], context |-> "section"]

\* a bag as a function from its elements to their counts
CopiesOf(bag, e) == IF e \in DOMAIN bag THEN bag[e] ELSE 0

AddCopy(bag, e) ==
    [x \in DOMAIN bag \cup {e} |-> CopiesOf(bag, x) + (IF x = e THEN 1 ELSE 0)]

\* CREATE for MERGE: the relationship is created whether or not one exists
CreateEdge(es, pair) == AddCopy(es, relatedTo(pair))

\* MERGE (n)-[:RELATED_TO {context: 'section'}]->(other) for one row: the
\* relationship is created unless one with this pattern exists
MergeEdge(es, pair) ==
    IF CopiesOf(es, relatedTo(pair)) > 0 THEN es
    ELSE AddCopy(es, relatedTo(pair))

RECURSIVE MergeEdgeSet(_, _)
MergeEdgeSet(es, pairs) ==
    IF pairs = {} THEN es
    ELSE LET pair == CHOOSE p \in pairs : TRUE
         IN  MergeEdgeSet(MergeEdge(es, pair), pairs \ {pair})

\* the relationship statement on one batch of headings: the rows in order
RECURSIVE MergeEdges(_, _, _)
MergeEdges(ns, es, batch) ==
    IF batch = <<>> THEN es
    ELSE MergeEdges(ns, MergeEdgeSet(es, RelatedPairs(ns, Head(batch))),
                    Tail(batch))

\* the batch of a for (let i = 0; i < all.length; i += size) loop at index i
BatchAt(all, i, size) == Slice(all, i, i + size)

EmptyStore == <<>>
NoEdges == [e \in {} |-> 0]

IngestIdle ==
    /\ nodes = EmptyStore
    /\ edges = NoEdges
    /\ ipc = "idle"
    /\ content = <<>>
    /\ bi = 0
    /\ session = "none"
    /\ attempts = <<>>
    /\ settled = 0
    /\ writeFailed = FALSE
    /\ before = <<EmptyStore, NoEdges>>
    /\ rerun = FALSE

\* the loops with the relationships of a batch written as soon as its nodes
\* are
IngestAtEdgesEarly(c, phase, i) ==
    IF phase = "nodes" /\ Len(headingContent(c)) > 0
    THEN [pc |-> "edges", i |-> 0]
    ELSE IF phase = "edges" /\ i < Len(headingContent(c))
         THEN [pc |-> "edges", i |-> i]
         ELSE [pc |-> "closing", i |-> 0]

\* where the call stands once the loops have been entered at (phase, i): the
\* write of the next batch is in flight, or the session is being closed
IngestAt(c, phase, i) ==
    IF phase = "nodes" /\ i < Len(validContent(c))
    THEN [pc |-> "nodes", i |-> i]
    ELSE LET j == IF phase = "nodes" THEN 0 ELSE i
         IN  IF j < Len(headingContent(c))
             THEN [pc |-> "edges", i |-> j]
             ELSE [pc |-> "closing", i |-> 0]


\* ingestContent(content): the session is opened, the content is filtered
\* and the first write is issued
IngestBegin ==
    /\ ipc \in {"idle", "done"}
    /\ LET at == IngestAt(content, "nodes", 0)
       IN  /\ ipc' = at.pc
           /\ bi' = at.i
           /\ attempts' = IF at.pc = "closing" THEN <<>>
                          ELSE <<<<at.pc, at.i>>>>
    /\ settled' = 0
    /\ rerun' = (ipc = "done" /\ ~writeFailed)
    /\ session' = "open"
    /\ writeFailed' = FALSE
    /\ before' = <<nodes, edges>>
    /\ UNCHANGED <<nodes, edges, content>>
    /\ UNCHANGED notIngest

\* the write in flight settles and the next step of the call is taken
IngestAdvance(phase, i) ==
    LET at == IngestAt(content, phase, i)
    IN  /\ ipc' = at.pc
        /\ bi' = at.i
        /\ attempts' = IF at.pc = "closing" THEN attempts
                       ELSE Append(attempts, <<at.pc, at.i>>)

\* await session.run(... MERGE (n:Content {id: item.id}) ...) resolves
NodeBatchWritten ==
    /\ ipc = "nodes"
    /\ nodes' = MergeNodes(nodes, BatchAt(validContent(content), bi,
                                           nodeBatchSize))
    /\ IngestAdvance("nodes", bi + nodeBatchSize)
    /\ settled' = settled + 1
    /\ UNCHANGED <<edges, content, session, writeFailed, before, rerun>>
    /\ UNCHANGED notIngest

\* await session.run(... MERGE (n)-[:RELATED_TO ...]->(other)) resolves
EdgeBatchWritten ==
    /\ ipc = "edges"
    /\ edges' = MergeEdges(nodes, edges, BatchAt(headingContent(content), bi,
                                                 relBatchSize))
    /\ IngestAdvance("edges", bi + relBatchSize)
    /\ settled' = settled + 1
    /\ UNCHANGED <<nodes, content, session, writeFailed, before, rerun>>
    /\ UNCHANGED notIngest

\* await session.run(...) rejects: the statement leaves nothing behind, the
\* catch around both loops logs the error and the finally runs
BatchWriteFails ==
    /\ ipc \in {"nodes", "edges"}
    /\ writeFailed' = TRUE
    /\ settled' = settled + 1
    /\ ipc' = "closing"
    /\ bi' = 0
    /\ UNCHANGED <<nodes, edges, content, session, attempts, before, rerun>>
    /\ UNCHANGED notIngest

\* finally { await session.close() }
IngestClose ==
    /\ ipc = "closing"
    /\ session' = CloseSession(session)
    /\ ipc' = "done"
    /\ UNCHANGED <<nodes, edges, content, bi, attempts, settled, writeFailed,
                   before, rerun>>
    /\ UNCHANGED notIngest

NextIngest ==
    \/ IngestBegin
    \/ NodeBatchWritten
    \/ EdgeBatchWritten
    \/ BatchWriteFails
    \/ IngestClose

-----------------------------------------------------------------------------
(* scrapeWebsite: the crawl.                                               *)

\* const MAX_PAGES = 950, scaled down to a ceiling a small site reaches
MAX_PAGES == 3

\* the most hrefs one page yields
MaxLinks == 2

\* shouldCrawl without its last conjunct
shouldCrawlIgnoringVisited(url, visited) ==
    LET isFilterPage == \/ Includes(url, "recipes?f%5B")
                        \/ Includes(url, "recipe_tags_filter")
    IN  /\ StartsWith(url, BASE_URL)
        /\ ~isFilterPage
        /\ ~Includes(url, "#")
        /\ ~Includes(url, "facebook.com")
        /\ ~Includes(url, "twitter.com")

shouldCrawl(url, visited) ==
    LET isFilterPage == \/ Includes(url, "recipes?f%5B")
                        \/ Includes(url, "recipe_tags_filter")
    IN  /\ StartsWith(url, BASE_URL)
        /\ ~isFilterPage
        /\ ~Includes(url, "#")
        /\ ~Includes(url, "facebook.com")
        /\ ~Includes(url, "twitter.com")
        /\ url \notin visited

\* the comparator of prioritizeLinks
compareLinks(a, b) ==
    IF Includes(a, "/recipe/") THEN -1
    ELSE IF Includes(b, "/recipe/") THEN 1
    ELSE 0

Reverse(s) == [i \in 1..Len(s) |-> s[Len(s) + 1 - i]]

\* Array.prototype.sort as V8 runs it on an array of fewer than 64 elements:
\* the leading run is counted (and reversed when strictly descending), the
\* remaining elements are placed by binary insertion.  The comparator is
\* called with the later element first.
RECURSIVE CountRun(_, _, _)
CountRun(s, descending, idx) ==
    IF idx > Len(s) THEN idx - 1
    ELSE LET order == compareLinks(s[idx], s[idx - 1])
         IN  IF (descending /\ order >= 0) \/ (~descending /\ order < 0)
             THEN idx - 1
             ELSE CountRun(s, descending, idx + 1)

RECURSIVE InsertionPoint(_, _, _, _)
InsertionPoint(s, pivot, left, right) ==
    IF left >= right THEN left
    ELSE LET mid == left + ((right - left) \div 2)
         IN  IF compareLinks(pivot, s[mid]) < 0
             THEN InsertionPoint(s, pivot, left, mid)
             ELSE InsertionPoint(s, pivot, mid + 1, right)

RECURSIVE BinaryInsertionSort(_, _)
BinaryInsertionSort(s, start) ==
    IF start > Len(s) THEN s
    ELSE LET pivot == s[start]
             left  == InsertionPoint(s, pivot, 1, start)
             moved == SubSeq(s, 1, left - 1) \o <<pivot>>
                        \o SubSeq(s, left, start - 1)
                        \o SubSeq(s, start + 1, Len(s))
         IN  BinaryInsertionSort(moved, start + 1)

prioritizeLinks(links) ==
    IF Len(links) < 2 THEN links
    ELSE LET descending == compareLinks(links[2], links[1]) < 0
             runLength  == CountRun(links, descending, 3)
             run        == IF descending
                           THEN Reverse(SubSeq(links, 1, runLength))
                                  \o SubSeq(links, runLength + 1, Len(links))
                           ELSE links
         IN  BinaryInsertionSort(run, runLength + 1)

\* the forEach without the test !queue.includes(normalizedLink)
RECURSIVE EnqueueLinksUntested(_, _, _, _)
EnqueueLinksUntested(q, links, i, visited) ==
    IF i > Len(links) THEN q
    ELSE IF shouldCrawl(links[i], visited)
         THEN IF ~ValidUrl(links[i]) THEN q
              ELSE EnqueueLinksUntested(Append(q, Normalize(links[i])), links,
                                        i + 1, visited)
         ELSE EnqueueLinksUntested(q, links, i + 1, visited)

\* prioritizeLinks(links).forEach(link => ...): the queue after the links
\* from position i on have been handled.  new URL(link) throwing ends the
\* forEach; what was pushed before stays.
RECURSIVE EnqueueLinks(_, _, _, _)
EnqueueLinks(q, links, i, visited) ==
    IF i > Len(links) THEN q
    ELSE IF shouldCrawl(links[i], visited)
         THEN IF ~ValidUrl(links[i]) THEN q
              ELSE LET normalizedLink == Normalize(links[i])
                   IN  IF normalizedLink \in Range(q)
                       THEN EnqueueLinks(q, links, i + 1, visited)
                       ELSE EnqueueLinks(Append(q, normalizedLink), links,
                                         i + 1, visited)
         ELSE EnqueueLinks(q, links, i + 1, visited)

\* the links the forEach gets to: all of them, or those up to the one for
\* which new URL(link) throws
RECURSIVE HandledLinks(_, _, _)
HandledLinks(links, i, visited) ==
    IF i > Len(links) THEN links
    ELSE IF shouldCrawl(links[i], visited) /\ ~ValidUrl(links[i])
         THEN SubSeq(links, 1, i)
         ELSE HandledLinks(links, i + 1, visited)

\* scrapedData.push({ url, html: pageContent })
htmlEntry(url) == [kind |-> "html", url |-> url]

\* what page.evaluate returns: the content items of the page taken together
\* when it has any (the loop only tests pageData.length > 0), or []
pageItems(url, hasContent) ==
    IF hasContent THEN <<[kind |-> "items", url |-> url]>> ELSE <<>>

\* the href lists page.evaluate can yield
LinkLists == SeqsUpTo(Hrefs, MaxLinks)

\* what prioritizeLinks(links) makes of them
PrioritizedLinkLists == {prioritizeLinks(links) : links \in LinkLists}

\* the locals of one pass of the loop, outside a pass
NoPage ==
    /\ pageData = <<>>
    /\ extract = "none"
    /\ present = FALSE
    /\ atCall = <<>>

\* before scrapeWebsite is called
CrawlIdle ==
    /\ cpc = "launch"
    /\ browser = "none"
    /\ queue = <<>>
    /\ visitedUrls = {}
    /\ scrapedData = <<>>
    /\ currentUrl = <<>>
    /\ crawlLog = <<>>
    /\ refused = FALSE
    /\ NoPage
    /\ websiteContentCache = <<>>

\* const browser = await puppeteer.launch(...)
Launch ==
    /\ cpc = "launch"
    /\ browser' = "open"
    /\ cpc' = "newPage"
    /\ UNCHANGED <<queue, visitedUrls, scrapedData, currentUrl, crawlLog,
                   refused, pageData, extract, present, atCall,
                   websiteContentCache>>
    /\ UNCHANGED notCrawl

LaunchFails ==
    /\ cpc = "launch"
    /\ cpc' = "threw"
    /\ UNCHANGED <<browser, queue, visitedUrls, scrapedData, currentUrl,
                   crawlLog, refused, pageData, extract, present, atCall,
                   websiteContentCache>>
    /\ UNCHANGED notCrawl

\* browser.newPage() and page.setUserAgent(...), then the locals of the run
NewPage ==
    /\ cpc = "newPage"
    /\ queue' = <<BASE_URL>>
    /\ visitedUrls' = {}
    /\ scrapedData' = <<>>
    /\ cpc' = "loop"
    /\ UNCHANGED <<browser, currentUrl, crawlLog, refused, pageData, extract,
                   present, atCall, websiteContentCache>>
    /\ UNCHANGED notCrawl

\* either of the two rejects: scrapeWebsite rejects, nothing closes the browser
NewPageFails ==
    /\ cpc = "newPage"
    /\ cpc' = "threw"
    /\ UNCHANGED <<browser, queue, visitedUrls, scrapedData, currentUrl,
                   crawlLog, refused, pageData, extract, present, atCall,
                   websiteContentCache>>
    /\ UNCHANGED notCrawl

\* the loop test without the ceiling
LoopGuardNoCeiling == Len(queue) > 0

\* the loop test with <= for <
LoopGuardOffByOne == Len(queue) > 0 /\ Cardinality(visitedUrls) <= MAX_PAGES

\* while (queue.length > 0 && visitedUrls.size < MAX_PAGES)
LoopGuard == Len(queue) > 0 /\ Cardinality(visitedUrls) < MAX_PAGES

\* const currentUrl = queue.shift();
\* if (!shouldCrawl(currentUrl)) continue;
\* console.log(`Crawling ...`); visitedUrls.add(currentUrl);
\* and the call of extractPageContent(currentUrl), up to its page.goto
Dequeue ==
    /\ cpc = "loop"
    /\ LoopGuard
    /\ currentUrl' = Head(queue)
    /\ queue' = Tail(queue)
    /\ IF shouldCrawl(Head(queue), visitedUrls)
       THEN /\ crawlLog' = Append(crawlLog, Head(queue))
            /\ visitedUrls' = visitedUrls \cup {Head(queue)}
            /\ atCall' = <<visitedUrls \cup {Head(queue)}, Tail(queue),
                           scrapedData>>
            /\ cpc' = "extract"
       ELSE UNCHANGED <<crawlLog, visitedUrls, atCall, cpc>>
    /\ UNCHANGED <<browser, scrapedData, refused, pageData, extract, present,
                   websiteContentCache>>
    /\ UNCHANGED notCrawl

\* a catch that logs and throws the error again
extractRethrows(url) == [returned |-> <<>>, next |-> "threw"]

\* catch (error) { console.error(...); return []; }: the call returns [] and
\* the loop body goes on
extractCatch(url) == [returned |-> <<>>, next |-> "links"]

\* extractPageContent(currentUrl): page.goto rejects (timeout, network error)
ExtractGotoFails ==
    /\ cpc = "extract"
    /\ pageData' = extractCatch(currentUrl).returned
    /\ extract' = "gotoFailed"
    /\ cpc' = extractCatch(currentUrl).next
    /\ UNCHANGED <<browser, queue, visitedUrls, scrapedData, currentUrl,
                   crawlLog, refused, present, atCall, websiteContentCache>>
    /\ UNCHANGED notCrawl

\* extractPageContent(currentUrl) for a url with /recipe/: the html is
\* recorded, then no h1, h2 or p shows up within the timeout of
\* page.waitForSelector, which rejects inside the try: the catch returns []
\* whatever the page holds
ExtractWaitTimesOut ==
    /\ cpc = "extract"
    /\ Includes(currentUrl, "/recipe/")
    /\ scrapedData' = Append(scrapedData, htmlEntry(currentUrl))
    /\ \E hasContent \in BOOLEAN :
         /\ present' = hasContent
         /\ pageData' = extractCatch(currentUrl).returned
    /\ extract' = "waitTimedOut"
    /\ cpc' = extractCatch(currentUrl).next
    /\ UNCHANGED <<browser, queue, visitedUrls, currentUrl, crawlLog,
                   refused, atCall, websiteContentCache>>
    /\ UNCHANGED notCrawl

\* extractPageContent(currentUrl): the html is recorded, then page.evaluate
\* rejects: the catch returns []
ExtractFailsAfterContent ==
    /\ cpc = "extract"
    /\ scrapedData' = Append(scrapedData, htmlEntry(currentUrl))
    /\ pageData' = extractCatch(currentUrl).returned
    /\ extract' = "evaluateFailed"
    /\ cpc' = extractCatch(currentUrl).next
    /\ UNCHANGED <<browser, queue, visitedUrls, currentUrl, crawlLog,
                   refused, present, atCall, websiteContentCache>>
    /\ UNCHANGED notCrawl

\* extractPageContent(currentUrl): the html is recorded and the page's items
\* are returned
ExtractOk ==
    /\ cpc = "extract"
    /\ scrapedData' = Append(scrapedData, htmlEntry(currentUrl))
    /\ \E hasContent \in BOOLEAN :
         /\ present' = hasContent
         /\ pageData' = pageItems(currentUrl, hasContent)
    /\ extract' = "ok"
    /\ cpc' = "links"
    /\ UNCHANGED <<browser, queue, visitedUrls, currentUrl, crawlLog,
                   refused, atCall, websiteContentCache>>
    /\ UNCHANGED notCrawl

\* if (pageData && pageData.length > 0) scrapedData.push(...pageData);
WithPageData(all, data) ==
    IF Len(data) > 0 THEN all \o data ELSE all

\* the items of the page are appended; page.evaluate(...) yields the hrefs of
\* the page; they are prioritized and enqueued; then the politeness delay
CollectLinks ==
    /\ cpc = "links"
    /\ scrapedData' = WithPageData(scrapedData, pageData)
    /\ \E sorted \in PrioritizedLinkLists :
         /\ queue' = EnqueueLinks(queue, sorted, 1, visitedUrls)
         /\ refused' =
              (\/ refused
               \/ \E link \in Range(HandledLinks(sorted, 1, visitedUrls)) :
                     link \in visitedUrls)
    /\ cpc' = "loop"
    /\ pageData' = <<>>
    /\ extract' = "none"
    /\ present' = FALSE
    /\ atCall' = <<>>
    /\ UNCHANGED <<browser, visitedUrls, currentUrl, crawlLog,
                   websiteContentCache>>
    /\ UNCHANGED notCrawl

\* the items of the page are appended; page.evaluate(...) rejects: the catch
\* of the loop body logs it
LinksFail ==
    /\ cpc = "links"
    /\ scrapedData' = WithPageData(scrapedData, pageData)
    /\ cpc' = "loop"
    /\ pageData' = <<>>
    /\ extract' = "none"
    /\ present' = FALSE
    /\ atCall' = <<>>
    /\ UNCHANGED <<browser, queue, visitedUrls, currentUrl, crawlLog,
                   refused, websiteContentCache>>
    /\ UNCHANGED notCrawl

\* the loop has ended: cache and ingest what was scraped, close the browser
ProcessResults ==
    /\ cpc = "loop"
    /\ ~LoopGuard
    /\ websiteContentCache' =
         IF Len(scrapedData) > 0 THEN scrapedData ELSE websiteContentCache
    /\ browser' = "closed"
    /\ cpc' = "done"
    /\ UNCHANGED <<queue, visitedUrls, scrapedData, currentUrl, crawlLog,
                   refused, pageData, extract, present, atCall>>
    /\ UNCHANGED notCrawl

NextCrawl ==
    \/ Launch
    \/ LaunchFails
    \/ NewPage
    \/ NewPageFails
    \/ Dequeue
    \/ ExtractGotoFails
    \/ ExtractWaitTimesOut
    \/ ExtractFailsAfterContent
    \/ ExtractOk
    \/ CollectLinks
    \/ LinksFail
    \/ ProcessResults

-----------------------------------------------------------------------------
(* GraphRAG.queryRelatedConcepts.  A similarity is a number of thousandths, *)
(* a confidence a number of hundredths.                                    *)

\* WHERE similarity > 0.6
SimilarityThreshold == 600

\* LIMIT 10
QueryLimit == 10

\* the most rows of the store in a behaviour that draws them from all the
\* sampled similarities, and in one that draws them from two similarities
MaxMixedRows == 2
MaxRows == 11

\* similarities on both sides of the threshold and of the rounding steps, and
\* whether n.text or m.text CONTAINS $query
SampledRows == [sim : {599, 600, 601, 604, 606, 994, 996, 1000},
                hit : BOOLEAN]

TwoRows == {[sim |-> 604, hit |-> TRUE], [sim |-> 900, hit |-> TRUE]}

RowLists == SeqsUpTo(SampledRows, MaxMixedRows) \cup SeqsUpTo(TwoRows, MaxRows)

\* Number.prototype.toFixed(2): the nearest number of hundredths.  No sampled
\* similarity lies half-way between two of them.
ToFixed2(sim) == (sim + 5) \div 10

\* the threshold test with >= for >
MatchesAtThreshold(row) == row.hit /\ row.sim >= SimilarityThreshold

\* WHERE n.text CONTAINS $query OR m.text CONTAINS $query ... WHERE
\* similarity > 0.6
Matches(row) == row.hit /\ row.sim > SimilarityThreshold

\* the rows with their position, which stands for the pair (n, m)
Numbered(rs) == [k \in 1..Len(rs) |-> [edge |-> k, sim |-> rs[k].sim,
                                       hit |-> rs[k].hit]]

\* ORDER BY similarity DESC: rows of equal similarity stay in the order the
\* store yields them, which is any order
RECURSIVE InsertBySimilarity(_, _)
InsertBySimilarity(sorted, row) ==
    IF sorted = <<>> THEN <<row>>
    ELSE IF Head(sorted).sim >= row.sim
         THEN <<Head(sorted)>> \o InsertBySimilarity(Tail(sorted), row)
         ELSE <<row>> \o sorted

RECURSIVE OrderBySimilarityDesc(_)
OrderBySimilarityDesc(rs) ==
    IF rs = <<>> THEN <<>>
    ELSE InsertBySimilarity(OrderBySimilarityDesc(SubSeq(rs, 1, Len(rs) - 1)),
                            rs[Len(rs)])

\* LIMIT applied to the rows as the store yields them, before they are ordered
LimitBeforeOrder(rs) ==
    OrderBySimilarityDesc(SubSeq(SelectSeq(Numbered(rs), Matches), 1,
        Min(QueryLimit, Len(SelectSeq(Numbered(rs), Matches)))))

\* the records of the statement: WHERE, ORDER BY similarity DESC, LIMIT 10
QueryRecords(rs) ==
    LET ordered == OrderBySimilarityDesc(SelectSeq(Numbered(rs), Matches))
    IN  SubSeq(ordered, 1, Min(QueryLimit, Len(ordered)))

\* result.records.map(record => ({..., confidence: similarity.toFixed(2)}))
Relations(records) ==
    [k \in 1..Len(records) |->
        [edge |-> records[k].edge, similarity |-> records[k].sim,
         confidence |-> ToFixed2(records[k].sim)]]

QueryIdle ==
    /\ qpc = "idle"
    /\ rows = <<>>
    /\ qsession = "none"
    /\ qresult = <<>>
    /\ qfailed = FALSE

\* const session = this.driver.session(); session.run(...) is issued
QueryBegin ==
    /\ qpc = "idle"
    /\ qsession' = "open"
    /\ qpc' = "running"
    /\ UNCHANGED <<rows, qresult, qfailed>>
    /\ UNCHANGED notQuery

\* session.run resolves: return result.records.map(...)
QueryReturns ==
    /\ qpc = "running"
    /\ qresult' = Relations(QueryRecords(rows))
    /\ qpc' = "closing"
    /\ UNCHANGED <<rows, qsession, qfailed>>
    /\ UNCHANGED notQuery

\* session.run rejects: the catch logs the error and returns []
QueryFails ==
    /\ qpc = "running"
    /\ qresult' = <<>>
    /\ qfailed' = TRUE
    /\ qpc' = "closing"
    /\ UNCHANGED <<rows, qsession>>
    /\ UNCHANGED notQuery

\* finally { await session.close() }
QueryClose ==
    /\ qpc = "closing"
    /\ qsession' = CloseSession(qsession)
    /\ qpc' = "done"
    /\ UNCHANGED <<rows, qresult, qfailed>>
    /\ UNCHANGED notQuery

NextQuery ==
    \/ QueryBegin
    \/ QueryReturns
    \/ QueryFails
    \/ QueryClose

-----------------------------------------------------------------------------
(* uploadToAzureSearch.  The documents are told apart by their index in    *)
(* validDocuments; a batch is the interval of indices slice(i, i +         *)
(* MAX_BATCH_SIZE) takes, from its first index to the one after its last.  *)

MAX_BATCH_SIZE == 30000

\* the most full batches of a behaviour
MaxFullBatches == 3

\* numbers of documents around the multiples of the ceiling, and Scenario D's
DocCounts ==
    {0, 1, 2, 35000}
      \cup {k * MAX_BATCH_SIZE + d : k \in 1..MaxFullBatches, d \in {-1, 0, 1}}

\* slice(i, i + MAX_BATCH_SIZE + 1): one document too many
BatchEndInclusive(i, n) == Min(i + MAX_BATCH_SIZE + 1, n)

\* the end of validDocuments.slice(i, i + MAX_BATCH_SIZE)
BatchEnd(i, n) == Min(i + MAX_BATCH_SIZE, n)

UploadIdle ==
    /\ upc = "idle"
    /\ validCount = 0
    /\ droppedCount = 0
    /\ ui = 0
    /\ uploads = <<>>

\* where the loop stands at index i: the upload of the batch at i is in
\* flight, or the function has returned
UploadAt(i) == IF i < validCount THEN "uploading" ELSE "done"

\* the filter and the map, then the first uploadDocuments(batch)
UploadBegin ==
    /\ upc = "idle"
    /\ ui' = 0
    /\ upc' = UploadAt(0)
    /\ UNCHANGED <<validCount, droppedCount, uploads>>
    /\ UNCHANGED notUpload

\* await searchClient.uploadDocuments(batch) resolves; after the pause the
\* loop goes on
BatchUploaded ==
    /\ upc = "uploading"
    /\ uploads' = Append(uploads, [from |-> ui, to |-> BatchEnd(ui, validCount),
                                   ok |-> TRUE])
    /\ ui' = ui + MAX_BATCH_SIZE
    /\ upc' = UploadAt(ui + MAX_BATCH_SIZE)
    /\ UNCHANGED <<validCount, droppedCount>>
    /\ UNCHANGED notUpload

\* no catch in the loop: the rejection reaches the outer catch, which logs
\* and throws it again
AfterBatchErrorRethrown(i) == "threw"

\* catch (batchError): the error is logged and the for statement goes on to
\* its update i += MAX_BATCH_SIZE
AfterBatchError(i) == UploadAt(i + MAX_BATCH_SIZE)

\* await searchClient.uploadDocuments(batch) rejects: the catch in the loop
\* logs the error and the loop goes on
BatchUploadFails ==
    /\ upc = "uploading"
    /\ uploads' = Append(uploads, [from |-> ui, to |-> BatchEnd(ui, validCount),
                                   ok |-> FALSE])
    /\ ui' = ui + MAX_BATCH_SIZE
    /\ upc' = AfterBatchError(ui)
    /\ UNCHANGED <<validCount, droppedCount>>
    /\ UNCHANGED notUpload

NextUpload ==
    \/ UploadBegin
    \/ BatchUploaded
    \/ BatchUploadFails

-----------------------------------------------------------------------------
(* app.post('/api/chat').                                                  *)

\* top: 3
TopK == 3

\* the most relations the graph query hands to a request
MaxRelations == 2

Documents == {"doc1", "doc2", "doc3"}
RelationNames == {"rel1", "rel2"}

\* what the index can answer: at most `top` documents, none of them twice
SearchAnswers ==
    {ds \in SeqsUpTo(Documents, TopK) :
        \A i, j \in 1..Len(ds) : ds[i] = ds[j] => i = j}

GraphAnswers == SeqsUpTo(RelationNames, MaxRelations)

\* for await (const result of searchResults.results) searchContent.push(...)
RECURSIVE ReadResults(_)
ReadResults(docs) ==
    IF docs = <<>> THEN <<>>
    ELSE <<Head(docs)>> \o ReadResults(Tail(docs))

\* the context with the relations spread first
BuildContextGraphFirst(docs, rels) ==
    [k \in 1..Len(rels) |-> <<"Related concept", rels[k]>>]
      \o [k \in 1..Len(docs) |-> <<"Relevant content", docs[k]>>]

\* const context = [...searchContent.map(...), ...graphData.map(...)]
BuildContext(docs, rels) ==
    [k \in 1..Len(docs) |-> <<"Relevant content", docs[k]>>]
      \o [k \in 1..Len(rels) |-> <<"Related concept", rels[k]>>]

ChatIdle ==
    /\ hpc = "idle"
    /\ message = FALSE
    /\ lexical = "none"
    /\ graph = "none"
    /\ llm = "none"
    /\ searchResults = <<>>
    /\ searchContent = <<>>
    /\ graphData = <<>>
    /\ context = <<>>
    /\ status = 0

\* if (!message) return res.status(400)...
ChatRejected ==
    /\ hpc = "idle"
    /\ ~message
    /\ status' = 400
    /\ hpc' = "done"
    /\ UNCHANGED <<message, searchResults, lexical, graph, llm, searchContent, graphData,
                   context>>
    /\ UNCHANGED notChat

\* searchClient.search(message, ...) is issued and awaited
ChatSearch ==
    /\ hpc = "idle"
    /\ message
    /\ lexical' = "pending"
    /\ hpc' = "search"
    /\ UNCHANGED <<message, searchResults, graph, llm, searchContent, graphData, context,
                   status>>
    /\ UNCHANGED notChat

\* the search resolves and its results are read into searchContent; then
\* graphRAG.queryRelatedConcepts(message) is called and awaited
SearchAnswered ==
    /\ hpc = "search"
    /\ \E docs \in SearchAnswers :
         /\ searchResults' = docs
         /\ searchContent' = ReadResults(docs)
    /\ lexical' = "ok"
    /\ graph' = "pending"
    /\ hpc' = "graph"
    /\ UNCHANGED <<message, llm, graphData, context, status>>
    /\ UNCHANGED notChat

\* the search, or the reading of its results, rejects: the catch of the
\* handler answers 500
SearchFails ==
    /\ hpc = "search"
    /\ lexical' = "failed"
    /\ status' = 500
    /\ hpc' = "done"
    /\ UNCHANGED <<message, searchResults, graph, llm, searchContent, graphData, context>>
    /\ UNCHANGED notChat

\* queryRelatedConcepts returns its relations; the context is built and the
\* completion is requested
GraphAnswered ==
    /\ hpc = "graph"
    /\ \E rels \in GraphAnswers :
         /\ graphData' = rels
         /\ context' = BuildContext(searchContent, rels)
    /\ graph' = "ok"
    /\ llm' = "pending"
    /\ hpc' = "llm"
    /\ UNCHANGED <<message, searchResults, lexical, searchContent, status>>
    /\ UNCHANGED notChat

\* the graph query fails inside queryRelatedConcepts, which returns []
GraphFails ==
    /\ hpc = "graph"
    /\ graphData' = <<>>
    /\ context' = BuildContext(searchContent, <<>>)
    /\ graph' = "failed"
    /\ llm' = "pending"
    /\ hpc' = "llm"
    /\ UNCHANGED <<message, searchResults, lexical, searchContent, status>>
    /\ UNCHANGED notChat

\* the completion resolves: res.json({response, sources})
CompletionAnswered ==
    /\ hpc = "llm"
    /\ llm' = "ok"
    /\ status' = 200
    /\ hpc' = "done"
    /\ UNCHANGED <<message, searchResults, lexical, graph, searchContent, graphData, context>>
    /\ UNCHANGED notChat

\* the completion rejects: the catch of the handler answers 500
CompletionFails ==
    /\ hpc = "llm"
    /\ llm' = "failed"
    /\ status' = 500
    /\ hpc' = "done"
    /\ UNCHANGED <<message, searchResults, lexical, graph, searchContent, graphData, context>>
    /\ UNCHANGED notChat

NextChat ==
    \/ ChatRejected
    \/ ChatSearch
    \/ SearchAnswered
    \/ SearchFails
    \/ GraphAnswered
    \/ GraphFails
    \/ CompletionAnswered
    \/ CompletionFails

-----------------------------------------------------------------------------
(* initializeServices: the start-up run with its retries.  An attempt is   *)
(* ensureSearchIndex, scrapeWebsite and, for a content that is not empty,  *)
(* uploadToAzureSearch; each of them can reject.                           *)

\* let retries = 3
InitialRetries == 3

\* setTimeout(resolve, 5000)
RetryPause == 5000

\* the longest content an attempt scrapes
MaxScraped == 2

StartIdle ==
    /\ spc = "idle"
    /\ retries = 0
    /\ scraped = 0
    /\ tries = <<>>
    /\ pauses = <<>>
    /\ raised = <<>>
    /\ openBrowsers = 0

\* if (retries < 0) throw error: the test never holds
OutOfRetriesNever(r) == r < 0

\* if (retries === 0) throw error
OutOfRetries(r) == r = 0

\* while (retries > 0)
RetryGuard(r) == r > 0

\* let retries = 3; the first pass of the loop calls ensureSearchIndex()
StartServices ==
    /\ spc = "idle"
    /\ retries' = InitialRetries
    /\ spc' = IF RetryGuard(InitialRetries) THEN "index" ELSE "returned"
    /\ UNCHANGED <<scraped, tries, pauses, raised, openBrowsers>>
    /\ UNCHANGED notStart

\* await ensureSearchIndex() resolves; scrapeWebsite() is called
IndexEnsured ==
    /\ spc = "index"
    /\ spc' = "scrape"
    /\ UNCHANGED <<retries, scraped, tries, pauses, raised, openBrowsers>>
    /\ UNCHANGED notStart

\* puppeteer.launch() resolves: the crawl runs with a browser of its own
BrowserLaunched ==
    /\ spc = "scrape"
    /\ openBrowsers' = openBrowsers + 1
    /\ spc' = "crawl"
    /\ UNCHANGED <<retries, scraped, tries, pauses, raised>>
    /\ UNCHANGED notStart

\* await browser.close(); await scrapeWebsite() resolves: an empty content
\* ends the attempt with success, another content is uploaded
Scraped ==
    /\ spc = "crawl"
    /\ openBrowsers' = openBrowsers - 1
    /\ \E n \in 0..MaxScraped :
         /\ scraped' = n
         /\ IF n > 0
            THEN spc' = "upload" /\ tries' = tries
            ELSE spc' = "done" /\ tries' = Append(tries, "ok")
    /\ UNCHANGED <<retries, pauses, raised>>
    /\ UNCHANGED notStart

\* await uploadToAzureSearch(content) resolves; return
Uploaded ==
    /\ spc = "upload"
    /\ spc' = "done"
    /\ tries' = Append(tries, "ok")
    /\ UNCHANGED <<retries, scraped, pauses, raised, openBrowsers>>
    /\ UNCHANGED notStart

\* catch (error) { retries--; ...; if (retries === 0) throw error;
\* then the pause is awaited
AttemptFails(error) ==
    /\ retries' = retries - 1
    /\ tries' = Append(tries, error)
    /\ IF OutOfRetries(retries - 1)
       THEN spc' = "threw" /\ raised' = <<Len(tries) + 1, error>>
       ELSE spc' = "pause" /\ raised' = raised
    /\ UNCHANGED <<scraped, pauses>>
    /\ UNCHANGED notStart

\* ensureSearchIndex() rejects
IndexFails ==
    /\ spc = "index"
    /\ AttemptFails("index")
    /\ UNCHANGED openBrowsers

\* scrapeWebsite() rejects because puppeteer.launch() does
ScrapeFails ==
    /\ spc = "scrape"
    /\ AttemptFails("scrape")
    /\ UNCHANGED openBrowsers

\* scrapeWebsite() rejects after the launch, because browser.newPage() or
\* page.setUserAgent(...) does: no catch and no finally of the function
\* closes the browser
CrawlFails ==
    /\ spc = "crawl"
    /\ AttemptFails("scrape")
    /\ UNCHANGED openBrowsers

\* uploadToAzureSearch(content) rejects
UploadFails ==
    /\ spc = "upload"
    /\ AttemptFails("upload")
    /\ UNCHANGED openBrowsers

\* the pause is over: the loop test, then the next attempt
PauseOver ==
    /\ spc = "pause"
    /\ pauses' = Append(pauses, RetryPause)
    /\ spc' = IF RetryGuard(retries) THEN "index" ELSE "returned"
    /\ scraped' = 0
    /\ UNCHANGED <<retries, tries, raised, openBrowsers>>
    /\ UNCHANGED notStart

NextStart ==
    \/ StartServices
    \/ IndexEnsured
    \/ BrowserLaunched
    \/ Scraped
    \/ Uploaded
    \/ IndexFails
    \/ ScrapeFails
    \/ CrawlFails
    \/ UploadFails
    \/ PauseOver

-----------------------------------------------------------------------------
(* ensureSearchIndex: check, then create.  A status is the statusCode of   *)
(* the answer; 0 stands for an error that carries none (no connection).    *)

\* the most calls of ensureSearchIndex in a behaviour
MaxEnsureCalls == 3

Found == 200
\* error.statusCode === 404
NotFound == 404

\* what getIndex can answer for a store that holds the index or does not
CheckAnswers(exists) ==
    (IF exists THEN {Found} ELSE {NotFound}) \cup {0, 403, 500}

\* what createIndex can be rejected with
CreateErrors == {0, 409, 500}

IndexIdle ==
    /\ xpc = "idle"
    /\ indexExists = FALSE
    /\ checks = <<>>
    /\ creates = <<>>
    /\ xraised = <<>>

\* the inner catch creating the index for every error of the check
ShouldCreateOnAnyError(code) == code # Found

\* if (error.statusCode === 404)
ShouldCreate(code) == code = NotFound

\* await indexClient.getIndex(indexName) is issued
EnsureBegin ==
    /\ xpc \in {"idle", "done", "threw"}
    /\ Len(checks) < MaxEnsureCalls
    /\ xpc' = "checking"
    /\ xraised' = <<>>
    /\ UNCHANGED <<indexExists, checks, creates>>
    /\ UNCHANGED notIndex

\* getIndex settles: the index exists and the call returns; or the inner
\* catch issues createIndex for a 404 and throws every other error again,
\* which the outer catch logs and throws to the caller
CheckAnswered ==
    /\ xpc = "checking"
    /\ \E code \in CheckAnswers(indexExists) :
         /\ checks' = Append(checks, code)
         /\ IF code = Found
            THEN /\ xpc' = "done"
                 /\ UNCHANGED <<creates, xraised>>
            ELSE IF ShouldCreate(code)
                 THEN /\ xpc' = "creating"
                      /\ creates' = Append(creates, Len(checks) + 1)
                      /\ UNCHANGED xraised
                 ELSE /\ xpc' = "threw"
                      /\ xraised' = <<code>>
                      /\ UNCHANGED creates
    /\ UNCHANGED indexExists
    /\ UNCHANGED notIndex

\* await indexClient.createIndex(index) resolves
IndexCreated ==
    /\ xpc = "creating"
    /\ indexExists' = TRUE
    /\ xpc' = "done"
    /\ UNCHANGED <<checks, creates, xraised>>
    /\ UNCHANGED notIndex

\* createIndex rejects: the outer catch logs the error and throws it
CreateFails ==
    /\ xpc = "creating"
    /\ \E code \in CreateErrors : xraised' = <<code>>
    /\ xpc' = "threw"
    /\ UNCHANGED <<indexExists, checks, creates>>
    /\ UNCHANGED notIndex

NextIndex ==
    \/ EnsureBegin
    \/ CheckAnswered
    \/ IndexCreated
    \/ CreateFails

-----------------------------------------------------------------------------
(* prioritizeLinks, applied to one array of links.                         *)

SortIdle ==
    /\ kpc = "idle"
    /\ given = <<>>
    /\ arranged = <<>>

\* return links.sort(...): the array is sorted in place and returned
SortLinks ==
    /\ kpc = "idle"
    /\ arranged' = prioritizeLinks(given)
    /\ kpc' = "sorted"
    /\ UNCHANGED given
    /\ UNCHANGED notSort

NextSort ==
    \/ SortLinks

-----------------------------------------------------------------------------
(* The Chatbot component of the frontend.                                  *)

\* the most requests one behaviour posts
MaxSends == 2

\* String.prototype.trim()
WhiteSpace == {" ", "\n"}

RECURSIVE TrimStart(_)
TrimStart(text) ==
    IF text # <<>> /\ Head(text) \in WhiteSpace THEN TrimStart(Tail(text))
    ELSE text

Trim(text) == Reverse(TrimStart(Reverse(TrimStart(text))))

\* what the user can have typed into the text field
Inputs == {<<>>, <<" ">>, <<"h", "i">>, <<" ", "h", "i", "\n">>}

\* response.data.response of a resolved request: the reply, or undefined when
\* the body has no such field
Replies == {<<"r", "e", "p", "l", "y">>, <<"undefined">>}

\* error.response?.data?.error || "Sorry, I'm having trouble connecting. ..."
ConnectionTrouble == <<"Sorry, I'm having trouble connecting.">>
ErrorTexts == {<<"Message is required">>, ConnectionTrouble}

Greeting == [text |-> <<"Hey! I'm Smartie">>, sender |-> "bot"]

\* setMessages(prev => [...prev, message])
AddMessage(prev, text, sender) == Append(prev, [text |-> text, sender |-> sender])

\* if (input === '') return
IsBlankUntrimmed(text) == text = <<>>

\* if (input.trim() === '') return
IsBlank(text) == Trim(text) = <<>>

WidgetIdle ==
    /\ wpc = "idle"
    /\ open = FALSE
    /\ input = <<>>
    /\ messages = <<Greeting>>
    /\ isLoading = FALSE
    /\ posted = <<>>
    /\ answered = <<>>
    /\ blankSend = FALSE
    /\ shown = <<>>

\* handleClickOpen
OpenChat ==
    /\ ~open
    /\ open' = TRUE
    /\ blankSend' = FALSE
    /\ shown' = <<>>
    /\ UNCHANGED <<wpc, input, messages, isLoading, posted, answered>>
    /\ UNCHANGED notWidget

\* handleClose
CloseChat ==
    /\ open
    /\ open' = FALSE
    /\ blankSend' = FALSE
    /\ shown' = <<>>
    /\ UNCHANGED <<wpc, input, messages, isLoading, posted, answered>>
    /\ UNCHANGED notWidget

\* onChange={(e) => setInput(e.target.value)} of the text field, which is
\* disabled while isLoading
TypeInput ==
    /\ open
    /\ ~isLoading
    /\ \E text \in Inputs \ {input} : input' = text
    /\ blankSend' = FALSE
    /\ shown' = <<>>
    /\ UNCHANGED <<wpc, open, messages, isLoading, posted, answered>>
    /\ UNCHANGED notWidget

\* handleSend by the Enter key on a blank input: it returns at its first
\* line.  (The send button is disabled on a blank input.)
SendBlank ==
    /\ open
    /\ ~isLoading
    /\ IsBlank(input)
    /\ blankSend' = TRUE
    /\ shown' = <<messages, input, isLoading>>
    /\ UNCHANGED <<wpc, open, input, messages, isLoading, posted, answered>>
    /\ UNCHANGED notWidget

\* handleSend by the Enter key or the send button, both disabled while
\* isLoading: the user's message is added, the input cleared, isLoading set
\* and the request posted
SendMessage ==
    /\ open
    /\ ~isLoading
    /\ ~IsBlank(input)
    /\ Len(posted) < MaxSends
    /\ messages' = AddMessage(messages, input, "user")
    /\ input' = <<>>
    /\ isLoading' = TRUE
    /\ posted' = Append(posted, input)
    /\ wpc' = "posting"
    /\ blankSend' = FALSE
    /\ shown' = <<>>
    /\ UNCHANGED <<open, answered>>
    /\ UNCHANGED notWidget

\* the request has settled with this text: the bot's message is added and
\* the finally clears isLoading
RequestSettled(text) ==
    /\ messages' = AddMessage(messages, text, "bot")
    /\ answered' = Append(answered, text)
    /\ isLoading' = FALSE
    /\ wpc' = "idle"
    /\ UNCHANGED <<open, input, posted, blankSend, shown>>
    /\ UNCHANGED notWidget

\* await axios.post(...) resolves
ReplyArrives ==
    /\ wpc = "posting"
    /\ \E text \in Replies : RequestSettled(text)

\* await axios.post(...) rejects: an error status, the timeout of 10 s or no
\* connection
RequestFails ==
    /\ wpc = "posting"
    /\ \E text \in ErrorTexts : RequestSettled(text)

NextWidget ==
    \/ OpenChat
    \/ CloseChat
    \/ TypeInput
    \/ SendBlank
    \/ SendMessage
    \/ ReplyArrives
    \/ RequestFails

-----------------------------------------------------------------------------
(* app.post('/api/graph/add-node').                                        *)

\* the most requests one behaviour serves
MaxRequests == 2

\* a field the body lacks
Absent == <<"undefined">>

\* the bodies bodyParser.json() hands over
UserIds == {Absent, <<>>, <<"u", "1">>}
NodeTexts == {Absent, <<>>, <<"n", "o", "t", "e">>}
NodeTypes == {Absent, <<"p">>}
NodeUrls == {Absent, Home}
Bodies == [userId : UserIds, text : NodeTexts, type : NodeTypes,
           url : NodeUrls]

NoBody == [userId |-> Absent, text |-> Absent, type |-> Absent,
           url |-> Absent]

\* !value for undefined and for the empty string
Not(value) == value = Absent \/ value = <<>>

\* the methods of the class GraphRAG of the server
GraphRAGMethods == {"constructor", "initializeSchema", "ingestContent",
                    "queryRelatedConcepts"}

AddNodeIdle ==
    /\ apc = "idle"
    /\ reqBody = NoBody
    /\ resStatus = 0
    /\ resJson = <<>>
    /\ graphWrites = <<>>
    /\ served = 0

\* a POST arrives
AddNodeReceived ==
    /\ apc \in {"idle", "answered"}
    /\ served < MaxRequests
    /\ served' = served + 1
    /\ reqBody' \in Bodies
    /\ resStatus' = 0
    /\ resJson' = <<>>
    /\ apc' = "received"
    /\ UNCHANGED graphWrites
    /\ UNCHANGED notAddNode

\* the handler: 400 for a body without userId or text; otherwise
\* graphRAG.addUserNode(...) is called inside the try, which throws a
\* TypeError when graphRAG has no such method, and the catch answers 500
AddNodeHandled ==
    /\ apc = "received"
    /\ IF Not(reqBody.userId) \/ Not(reqBody.text)
       THEN /\ resStatus' = 400
            /\ resJson' = <<"error", "userId and text are required">>
            /\ UNCHANGED graphWrites
       ELSE IF "addUserNode" \in GraphRAGMethods
            THEN /\ graphWrites' = Append(graphWrites, reqBody)
                 /\ resStatus' = 200
                 /\ resJson' = <<"node", reqBody>>
            ELSE /\ resStatus' = 500
                 /\ resJson' = <<"error", "Failed to add node">>
                 /\ UNCHANGED graphWrites
    /\ apc' = "answered"
    /\ UNCHANGED <<reqBody, served>>
    /\ UNCHANGED notAddNode

NextAddNode ==
    \/ AddNodeReceived
    \/ AddNodeHandled

-----------------------------------------------------------------------------
(* The specifications.                                                     *)

InitCrawl ==
    /\ CrawlIdle /\ IngestIdle /\ QueryIdle /\ UploadIdle /\ ChatIdle
    /\ StartIdle /\ IndexIdle /\ SchemaIdle /\ SortIdle /\ WidgetIdle
    /\ AddNodeIdle
SpecCrawl == InitCrawl /\ [][NextCrawl]_vars

\* every await of the crawl settles: puppeteer resolves or rejects each call
\* within its timeout, and the politeness delay is a timer of one second
SpecCrawlFair == SpecCrawl /\ WF_vars(NextCrawl)

\* the crawl hands the same content to every call of a behaviour; the store
\* is empty or holds what an earlier ingestion has left
InitIngest ==
    /\ CrawlIdle /\ QueryIdle /\ UploadIdle /\ ChatIdle
    /\ StartIdle /\ IndexIdle /\ SchemaIdle /\ SortIdle /\ WidgetIdle
    /\ AddNodeIdle
    /\ content \in Contents
    /\ \E earlier \in EarlierContents :
         /\ nodes = MergeNodes(EmptyStore, validContent(earlier))
         /\ edges = MergeEdges(MergeNodes(EmptyStore, validContent(earlier)),
                               NoEdges, headingContent(earlier))
         /\ before = <<nodes, edges>>
    /\ ipc = "idle"
    /\ bi = 0
    /\ session = "none"
    /\ attempts = <<>>
    /\ settled = 0
    /\ writeFailed = FALSE
    /\ rerun = FALSE
SpecIngest == InitIngest /\ [][NextIngest]_vars

\* the store holds any of the sampled lists of rows
InitQuery ==
    /\ CrawlIdle /\ IngestIdle /\ UploadIdle /\ ChatIdle
    /\ StartIdle /\ IndexIdle /\ SchemaIdle /\ SortIdle /\ WidgetIdle
    /\ AddNodeIdle
    /\ qpc = "idle"
    /\ rows \in RowLists
    /\ qsession = "none"
    /\ qresult = <<>>
    /\ qfailed = FALSE
SpecQuery == InitQuery /\ [][NextQuery]_vars

\* the content holds any of the sampled numbers of documents
InitUpload ==
    /\ CrawlIdle /\ IngestIdle /\ QueryIdle /\ ChatIdle
    /\ StartIdle /\ IndexIdle /\ SchemaIdle /\ SortIdle /\ WidgetIdle
    /\ AddNodeIdle
    /\ upc = "idle"
    /\ validCount \in DocCounts
    /\ droppedCount \in {0, 1}
    /\ ui = 0
    /\ uploads = <<>>
SpecUpload == InitUpload /\ [][NextUpload]_vars

\* a request with or without a message
InitChat ==
    /\ CrawlIdle /\ IngestIdle /\ QueryIdle /\ UploadIdle
    /\ StartIdle /\ IndexIdle /\ SchemaIdle /\ SortIdle /\ WidgetIdle
    /\ AddNodeIdle
    /\ hpc = "idle"
    /\ message \in BOOLEAN
    /\ lexical = "none"
    /\ graph = "none"
    /\ llm = "none"
    /\ searchResults = <<>>
    /\ searchContent = <<>>
    /\ graphData = <<>>
    /\ context = <<>>
    /\ status = 0
SpecChat == InitChat /\ [][NextChat]_vars

InitStart ==
    /\ CrawlIdle /\ IngestIdle /\ QueryIdle /\ UploadIdle /\ ChatIdle
    /\ StartIdle /\ IndexIdle /\ SchemaIdle /\ SortIdle /\ WidgetIdle
    /\ AddNodeIdle
SpecStart == InitStart /\ [][NextStart]_vars

\* ensureSearchIndex against a search service with or without the index
InitIndex ==
    /\ CrawlIdle /\ IngestIdle /\ QueryIdle /\ UploadIdle /\ ChatIdle
    /\ StartIdle /\ SchemaIdle /\ SortIdle /\ WidgetIdle /\ AddNodeIdle
    /\ xpc = "idle"
    /\ indexExists \in BOOLEAN
    /\ checks = <<>>
    /\ creates = <<>>
    /\ xraised = <<>>
SpecIndex == InitIndex /\ [][NextIndex]_vars

\* prioritizeLinks on any of the href lists
InitSort ==
    /\ CrawlIdle /\ IngestIdle /\ QueryIdle /\ UploadIdle /\ ChatIdle
    /\ StartIdle /\ IndexIdle /\ SchemaIdle /\ WidgetIdle /\ AddNodeIdle
    /\ kpc = "idle"
    /\ given \in LinkLists
    /\ arranged = given
SpecSort == InitSort /\ [][NextSort]_vars

\* the Chatbot component as it is mounted
InitWidget ==
    /\ CrawlIdle /\ IngestIdle /\ QueryIdle /\ UploadIdle /\ ChatIdle
    /\ StartIdle /\ IndexIdle /\ SchemaIdle /\ SortIdle /\ WidgetIdle
    /\ AddNodeIdle
SpecWidget == InitWidget /\ [][NextWidget]_vars

\* the add-node endpoint of the running server
InitAddNode ==
    /\ CrawlIdle /\ IngestIdle /\ QueryIdle /\ UploadIdle /\ ChatIdle
    /\ StartIdle /\ IndexIdle /\ SchemaIdle /\ SortIdle /\ WidgetIdle
    /\ AddNodeIdle
SpecAddNode == InitAddNode /\ [][NextAddNode]_vars

\* initializeSchema on a store that holds any part of the schema
InitSchema ==
    /\ CrawlIdle /\ IngestIdle /\ QueryIdle /\ UploadIdle /\ ChatIdle
    /\ StartIdle /\ IndexIdle /\ SortIdle /\ WidgetIdle /\ AddNodeIdle
    /\ starts = 0
    /\ scpc = 0
    /\ ssession = "none"
    /\ schema \in SUBSET Range(SchemaStatements)
    /\ sfailed = FALSE
    /\ sexists = FALSE
SpecSchema == InitSchema /\ [][NextSchema]_vars

\* the contents and the rows of the behaviours in which the three calls of
\* GraphRAG run side by side
SessionContents == {<<>>, <<heading, body>>, <<heading, body, bodyElsewhere>>}
SessionRows == {<<>>, <<[sim |-> 604, hit |-> TRUE], [sim |-> 900, hit |-> TRUE]>>}

\* initializeSchema, ingestContent and queryRelatedConcepts, each with a
\* session of its own, in any interleaving of their awaits
InitSessions ==
    /\ CrawlIdle /\ UploadIdle /\ ChatIdle
    /\ StartIdle /\ IndexIdle /\ SchemaIdle /\ SortIdle /\ WidgetIdle
    /\ AddNodeIdle
    /\ content \in SessionContents
    /\ nodes = EmptyStore
    /\ edges = NoEdges
    /\ before = <<EmptyStore, NoEdges>>
    /\ ipc = "idle"
    /\ bi = 0
    /\ session = "none"
    /\ attempts = <<>>
    /\ settled = 0
    /\ writeFailed = FALSE
    /\ rerun = FALSE
    /\ qpc = "idle"
    /\ rows \in SessionRows
    /\ qsession = "none"
    /\ qresult = <<>>
    /\ qfailed = FALSE
NextSessions == NextSchema \/ NextIngest \/ NextQuery
SpecSessions == InitSessions /\ [][NextSessions]_vars

-----------------------------------------------------------------------------
(* The claims.                                                             *)

NoRepeats(s) == \A i, j \in 1..Len(s) : s[i] = s[j] => i = j

\* C1: within one crawl run, a URL that has been added to the visited set is
\* turned down by shouldCrawl from then on, no URL is marked visited (logged
\* as crawled) more than once, and every URL ever marked visited is still in
\* the visited set.
C1_NoRevisit ==
    /\ \A url \in visitedUrls : ~shouldCrawl(url, visitedUrls)
    /\ NoRepeats(crawlLog)
    /\ Range(crawlLog) = visitedUrls

\* a page has linked to a URL visited before, the link was turned down, and
\* the crawl has gone on to other pages
C1_Witness ==
    /\ refused
    /\ Len(crawlLog) >= 2
    /\ cpc = "done"

\* C2: in every state of a crawl run the number of visited URLs is at most
\* MAX_PAGES, whatever is still waiting in the queue.
C2_VisitedAtMostMaxPages == Cardinality(visitedUrls) <= MAX_PAGES

\* the ceiling is reached while URLs are still queued
C2_Witness ==
    /\ Cardinality(visitedUrls) = MAX_PAGES
    /\ Len(queue) > 0

\* the batches a call of ingestContent has to write: the node batches, then
\* the relationship batches
RECURSIVE BatchStarts(_, _, _)
BatchStarts(n, size, i) ==
    IF i >= n THEN <<>> ELSE <<i>> \o BatchStarts(n, size, i + size)

AllBatches(c) ==
    LET ns == BatchStarts(Len(validContent(c)), nodeBatchSize, 0)
        es == BatchStarts(Len(headingContent(c)), relBatchSize, 0)
    IN  [k \in 1..Len(ns) |-> <<"nodes", ns[k]>>]
          \o [k \in 1..Len(es) |-> <<"edges", es[k]>>]

\* C3: when the write of one node batch or one relationship batch fails,
\* every remaining batch of the call is still attempted: a finished call has
\* issued the write of every batch of its content.
C3_RemainingBatchesAttempted ==
    ipc = "done" => attempts = AllBatches(content)

\* C4: when exactly one of the two retrieval sources fails during a chat
\* request, the request still succeeds, and the context is made of the
\* results of the other source alone.
C4_OneFailedSourceTolerated ==
    (/\ hpc = "done"
     /\ llm # "failed"
     /\ (lexical = "failed") # (graph = "failed"))
    => /\ status = 200
       /\ graph = "failed" => context = BuildContext(searchContent, <<>>)
       /\ lexical = "failed" => context = BuildContext(<<>>, graphData)

\* C5: the graph query is started without waiting for the full-text search:
\* while the search is outstanding the graph query has been started too.
C5_BothQueriesInFlight == lexical = "pending" => graph # "none"

\* C6: ingesting the same content a second time leaves the store as the
\* first ingestion left it: no node and no relationship is added or changed,
\* there is one node per id and one RELATED_TO per ordered pair.
C6_SecondRunChangesNothing ==
    /\ NoRepeats([k \in 1..Len(nodes) |-> nodes[k].id])
    /\ \A e \in DOMAIN edges : edges[e] = 1
    /\ (ipc = "done" /\ rerun /\ ~writeFailed) => <<nodes, edges>> = before

\* a second ingestion of a content with nodes and relationships has finished
C6_Witness ==
    /\ ipc = "done"
    /\ rerun
    /\ ~writeFailed
    /\ Len(attempts) >= 3
    /\ Len(nodes) >= 2
    /\ DOMAIN edges # {}

\* C7: every RELATED_TO relationship joins two nodes with the same url.
C7_EdgesWithinOneUrl ==
    \A e \in DOMAIN edges : nodes[e.from].url = nodes[e.to].url

\* relationships have been written for a heading while the store holds a
\* paragraph of another url whose text contains the heading's text
C7_Witness ==
    /\ ipc = "done"
    /\ ~writeFailed
    /\ DOMAIN edges # {}
    /\ \E h \in Range(headingContent(content)), o \in 1..Len(nodes) :
         /\ nodes[o].url # h.url
         /\ nodes[o].type \in {"p", "li"}
         /\ Contains(nodes[o].text, h.text)

\* the positions in rows of the relations a call has returned
ReturnedEdges == {qresult[k].edge : k \in 1..Len(qresult)}

QueryAnswered == qpc \in {"closing", "done"} /\ ~qfailed

\* C8 as claimed: every returned relation reports a confidence in (0.6, 1.0],
\* strictly above 0.6.
C8_ConfidenceAbovePoint6 ==
    \A k \in 1..Len(qresult) :
        qresult[k].confidence > 60 /\ qresult[k].confidence <= 100

\* C8 as amended: every returned relation has a similarity strictly above 0.6
\* and at most 1.0, and reports a confidence in [0.60, 1.00].
C8_ConfidenceAtLeastPoint6 ==
    \A k \in 1..Len(qresult) :
        /\ qresult[k].similarity > 600
        /\ qresult[k].similarity <= 1000
        /\ qresult[k].confidence >= 60
        /\ qresult[k].confidence <= 100

\* a pair whose similarity lies just above the threshold is returned with
\* the confidence 0.60, next to one returned with a higher confidence
C8_Witness ==
    /\ QueryAnswered
    /\ \E k \in 1..Len(qresult) :
         qresult[k].confidence = 60 /\ qresult[k].similarity > 600
    /\ \E k \in 1..Len(qresult) : qresult[k].confidence > 60

\* C9: at most 10 relations are returned, in non-increasing order of
\* similarity, each of them a matching pair returned once, and no matching
\* pair is left out unless 10 pairs of at least its similarity are returned.
C9_TopTenBySimilarity ==
    QueryAnswered =>
      /\ Len(qresult) <= 10
      /\ \A k \in 1..(Len(qresult) - 1) :
           qresult[k].similarity >= qresult[k + 1].similarity
      /\ \A k \in 1..Len(qresult) :
           /\ qresult[k].edge \in 1..Len(rows)
           /\ Matches(rows[qresult[k].edge])
           /\ rows[qresult[k].edge].sim = qresult[k].similarity
      /\ \A j, k \in 1..Len(qresult) :
           qresult[j].edge = qresult[k].edge => j = k
      /\ \A e \in 1..Len(rows) :
           (Matches(rows[e]) /\ e \notin ReturnedEdges)
           => /\ Len(qresult) = 10
              /\ \A k \in 1..Len(qresult) :
                   rows[e].sim <= qresult[k].similarity

\* more than 10 pairs match, the store yields a pair of lower similarity
\* before one of higher similarity, and pairs of both similarities are
\* returned while a matching pair is left out
C9_Witness ==
    /\ qpc = "done"
    /\ ~qfailed
    /\ Len(qresult) = 10
    /\ \E e \in 1..Len(rows) : Matches(rows[e]) /\ e \notin ReturnedEdges
    /\ \E i, j \in 1..Len(rows) :
         i < j /\ rows[i].sim < rows[j].sim /\ {i, j} \subseteq ReturnedEdges
    /\ qresult[1].similarity > qresult[10].similarity

\* C10: publishing n documents with the ceiling B issues exactly ceil(n/B)
\* upload calls, each with at least 1 and at most B documents, and the
\* batches take the documents in input order, each document once (35,000
\* documents make exactly 2 calls).
C10_BatchesPartitionDocuments ==
    upc = "done" =>
      /\ Len(uploads) = (validCount + MAX_BATCH_SIZE - 1) \div MAX_BATCH_SIZE
      /\ \A k \in 1..Len(uploads) :
           /\ uploads[k].to - uploads[k].from >= 1
           /\ uploads[k].to - uploads[k].from <= MAX_BATCH_SIZE
           /\ uploads[k].from = IF k = 1 THEN 0 ELSE uploads[k - 1].to
      /\ validCount > 0 => uploads[Len(uploads)].to = validCount
      /\ validCount = 35000 => Len(uploads) = 2

\* Scenario D has been published
C10_Witness ==
    /\ upc = "done"
    /\ validCount = 35000
    /\ Len(uploads) = 2
    /\ uploads[2].to - uploads[2].from = 5000


\* C11: when the upload of a batch is rejected, the error does not leave
\* uploadToAzureSearch, and a finished call has issued the upload of every
\* batch after the rejected one, up to the last document.
C11_LaterBatchesUploaded ==
    /\ upc # "threw"
    /\ upc = "done" =>
         \A k \in 1..Len(uploads) :
            (~uploads[k].ok /\ uploads[k].to < validCount)
            => /\ k < Len(uploads)
               /\ uploads[k + 1].from = uploads[k].to
               /\ uploads[Len(uploads)].to = validCount

\* the first batch was rejected, and the batches after it were uploaded
C11_Witness ==
    /\ upc = "done"
    /\ Len(uploads) >= 3
    /\ ~uploads[1].ok
    /\ uploads[2].ok
    /\ uploads[Len(uploads)].ok


\* the ways a call of extractPageContent fails
ExtractFailures == {"gotoFailed", "waitTimedOut", "evaluateFailed"}

\* C12: when the extraction of a page fails, extractPageContent returns an
\* empty list, scrapeWebsite does not reject once its loop has begun, and the
\* run ends only when the loop test is false: while a URL is queued and the
\* ceiling is not reached, the next URL is dequeued.
C12_FailedPageDoesNotAbort ==
    /\ (cpc = "links" /\ extract \in ExtractFailures) => pageData = <<>>
    /\ Len(crawlLog) > 0 => cpc # "threw"
    /\ cpc = "done" => ~LoopGuard
    /\ (cpc = "loop" /\ LoopGuard) => ENABLED Dequeue

\* the navigation to a page failed (nothing of it was recorded), and the
\* crawl has marked and extracted a later URL
C12_Witness ==
    /\ cpc = "links"
    /\ extract = "ok"
    /\ \E k \in 1..(Len(crawlLog) - 1) :
         htmlEntry(crawlLog[k]) \notin Range(scrapedData)

\* C17: when the wait for the primary content elements of a /recipe/ page
\* times out, extractPageContent returns the content items the page holds.
C17_WaitTimeoutKeepsItems ==
    (cpc = "links" /\ extract = "waitTimedOut")
    => pageData = pageItems(currentUrl, present)

\* C18: a call of extractPageContent leaves the visited set, the queue and the
\* scraped items as they were when it was called.
C18_ExtractorChangesNoCrawlState ==
    cpc = "links" => <<visitedUrls, queue, scrapedData>> = atCall

\* new URL(url).origin: the scheme and the host, which ends where the path,
\* the query or the fragment begins
HostTokens == {".example.net"}

RECURSIVE HostEnd(_, _)
HostEnd(url, i) ==
    IF i < Len(url) /\ url[i + 1] \in HostTokens THEN HostEnd(url, i + 1) ELSE i

Origin(url) == SubSeq(url, 1, HostEnd(url, 1))

\* C19: every URL marked visited has the origin of BASE_URL, no '#', is no
\* recipe filter page and no facebook.com or twitter.com link.
C19_VisitedUrlsAdmitted ==
    \A url \in visitedUrls :
        /\ Origin(url) = BASE_URL
        /\ ~Includes(url, "#")
        /\ ~Includes(url, "recipes?f%5B")
        /\ ~Includes(url, "recipe_tags_filter")
        /\ ~Includes(url, "facebook.com")
        /\ ~Includes(url, "twitter.com")


\* C15: every crawl run terminates; it is finished only with the queue empty
\* or MAX_PAGES URLs visited; and once MAX_PAGES URLs are visited no further
\* URL is marked visited, whatever is still queued.
C15_CrawlTerminates ==
    /\ <>(cpc \in {"done", "threw"})
    /\ [](cpc = "done" =>
            (Len(queue) = 0 \/ Cardinality(visitedUrls) >= MAX_PAGES))
    /\ [][Cardinality(visitedUrls) >= MAX_PAGES => visitedUrls' = visitedUrls]_vars

\* a run has finished at the ceiling with URLs left in the queue
C15_Witness ==
    /\ cpc = "done"
    /\ browser = "closed"
    /\ Cardinality(visitedUrls) = MAX_PAGES
    /\ Len(queue) > 0


\* C13: every item of validContent has a text longer than 10 characters and
\* a type among h1, h2, h3, h4, p and li; items with the same url and text
\* have the same id, whatever their type and place; and normalizing what
\* came through once more yields the same items with the same ids.
C13_NormalizedItemsAreValid ==
    LET valid == validContent(content)
    IN  /\ \A k \in 1..Len(valid) :
             /\ Len(valid[k].text) > 10
             /\ valid[k].type \in {"h1", "h2", "h3", "h4", "p", "li"}
        /\ \A j, k \in 1..Len(valid) :
             (valid[j].url = valid[k].url /\ valid[j].text = valid[k].text)
             => valid[j].id = valid[k].id
        /\ validContent(valid) = valid

\* a call has normalized a content with a text of 10 characters, which is
\* dropped, and two items of different types with one url and text
C13_Witness ==
    /\ ipc # "idle"
    /\ shortHeading \in Range(content)
    /\ \E j, k \in 1..Len(validContent(content)) :
         /\ validContent(content)[j].type # validContent(content)[k].type
         /\ validContent(content)[j].id = validContent(content)[k].id


\* C14: initializeServices makes at most 3 attempts; every failed attempt
\* but the third is followed by a pause of 5000 ms and another attempt; no
\* attempt follows a success; and the call rejects only after the third
\* attempt has failed, with the error of that attempt.
C14_AtMostThreeAttempts ==
    /\ Len(tries) <= 3
    /\ \A k \in 1..Len(tries) : tries[k] = "ok" => (k = Len(tries) /\ spc = "done")
    /\ \A k \in 1..Len(pauses) : pauses[k] = 5000
    /\ spc \in {"index", "scrape", "upload"} => Len(pauses) = Len(tries)
    /\ spc = "done" => Len(pauses) = Len(tries) - 1
    /\ spc = "pause" => (Len(pauses) = Len(tries) - 1 /\ Len(tries) < 3)
    /\ spc = "threw" <=> (Len(tries) = 3 /\ tries[3] # "ok")
    /\ spc = "threw" => (raised = <<3, tries[3]>> /\ Len(pauses) = 2)
    /\ spc # "threw" => raised = <<>>
    /\ spc # "returned"

\* two attempts failed, each was followed by the pause, and the third
\* attempt succeeded
C14_Witness ==
    /\ spc = "done"
    /\ Len(tries) = 3
    /\ tries[1] # "ok"
    /\ tries[2] # "ok"
    /\ tries[3] = "ok"
    /\ pauses = <<5000, 5000>>


\* C16: the context is the snippets of the documents the index returned, in
\* the order it returned them, followed by the relations the graph query
\* returned, in the order it returned them.
C16_LexicalThenGraphInOrder ==
    llm # "none" =>
      /\ Len(context) = Len(searchResults) + Len(graphData)
      /\ \A k \in 1..Len(searchResults) :
           context[k] = <<"Relevant content", searchResults[k]>>
      /\ \A k \in 1..Len(graphData) :
           context[Len(searchResults) + k] = <<"Related concept", graphData[k]>>

\* the index and the graph have both answered with several results, neither
\* in the order of their names
C16_Witness ==
    /\ hpc = "done"
    /\ status = 200
    /\ searchResults = <<"doc2", "doc3", "doc1">>
    /\ graphData = <<"rel2", "rel1">>


\* C20: a session that initializeSchema, ingestContent or
\* queryRelatedConcepts has opened is closed when the call has returned,
\* whether or not a statement of the call was rejected: a session is open
\* only while its call is under way.
C20_SessionsClosedOnReturn ==
    /\ scpc = Len(SchemaStatements) + 2 => ssession = "closed"
    /\ ipc = "done" => session = "closed"
    /\ qpc = "done" => qsession = "closed"
    /\ ssession = "open" => scpc \in 1..(Len(SchemaStatements) + 1)
    /\ session = "open" => ipc \in {"nodes", "edges", "closing"}
    /\ qsession = "open" => qpc \in {"running", "closing"}

\* the three calls have returned: the schema call after a rejected statement,
\* the ingestion after all its writes, the query after a rejected run
C20_Witness ==
    /\ scpc = Len(SchemaStatements) + 2
    /\ sfailed
    /\ schema = {"unique_node"}
    /\ ipc = "done"
    /\ ~writeFailed
    /\ Len(attempts) >= 3
    /\ qpc = "done"
    /\ qfailed


\* C21: a call of initializeSchema that could reach the store returns with
\* the uniqueness constraint and both indexes in the store, whatever part of
\* the schema the store held when the call began.
C21_SchemaCompleteAfterSetup ==
    (scpc = Len(SchemaStatements) + 2 /\ ~sfailed)
    => schema = {"unique_node", "type_index", "url_index"}


\* C22: a call of ensureSearchIndex issues createIndex exactly when getIndex
\* answered 404; when getIndex found the index the call returns without a
\* create; when getIndex failed with another error the call issues no create
\* and rejects with that error.
C22_CreateExactlyOnNotFound ==
    /\ \A k \in 1..Len(checks) :
         Cardinality({j \in 1..Len(creates) : creates[j] = k})
           = IF checks[k] = 404 THEN 1 ELSE 0
    /\ (xpc # "checking" /\ Len(checks) > 0) =>
         LET code == checks[Len(checks)]
         IN  /\ code = 200 => (xpc = "done" /\ xraised = <<>>)
             /\ code \notin {200, 404} => (xpc = "threw" /\ xraised = <<code>>)
             /\ code = 404 => xpc \in {"creating", "done", "threw"}

\* one call was turned down by the service and rejected, the next created
\* the index, the third found it
C22_Witness ==
    /\ xpc = "done"
    /\ checks = <<403, 404, 200>>
    /\ creates = <<2>>
    /\ indexExists


\* the links of s with, or without, /recipe/ in them, in the order of s
RecipeLinks(s) == SelectSeq(s, LAMBDA link : Includes(link, "/recipe/"))
OtherLinks(s) == SelectSeq(s, LAMBDA link : ~Includes(link, "/recipe/"))

\* C23: prioritizeLinks returns a permutation of its input in which every
\* link with /recipe/ in it comes before every link without, and the links of
\* each of the two groups keep the order they had in the input.
C23_StableRecipesFirst ==
    kpc = "sorted" => arranged = RecipeLinks(given) \o OtherLinks(given)



\* C24: ingestion is batch-sequential and two-phase: at most one batch write
\* is in flight at any time, batch N+1 starts only after the write of batch N
\* has settled, and no edge batch starts before the last node batch has
\* settled.
C24_OneWriteAtATimeNodesFirst ==
    /\ Len(attempts) - settled \in {0, 1}
    /\ Len(attempts) - settled = 1 <=> ipc \in {"nodes", "edges"}
    /\ LET valid        == SelectSeq(content, isValid)
           nodeBatches  == (Len(valid) + nodeBatchSize - 1) \div nodeBatchSize
           edgeBatches  == (Len(SelectSeq(valid, isHeading)) + relBatchSize - 1)
                             \div relBatchSize
       IN  /\ Len(attempts) <= nodeBatches + edgeBatches
           /\ \A k \in 1..Len(attempts) :
                 attempts[k] =
                    IF k <= nodeBatches
                    THEN <<"nodes", (k - 1) * nodeBatchSize>>
                    ELSE <<"edges", (k - 1 - nodeBatches) * relBatchSize>>

\* two node batches and the first edge batch have been written one after the
\* other, the second edge batch is in flight
C24_Witness ==
    /\ ipc = "edges"
    /\ attempts = <<<<"nodes", 0>>, <<"nodes", 2>>, <<"edges", 0>>,
                    <<"edges", 1>>>>
    /\ settled = 3



\* C25: once an ingestion has ended, every RELATED_TO relationship goes from
\* a node whose stored type is a heading type and whose stored text is longer
\* than 5 characters to another node whose stored type is p or li and whose
\* stored text contains the text of the first, also when several content
\* items have one id.
C25_EdgesFromHeadingsToBodies ==
    ipc = "done" =>
        \A e \in DOMAIN edges :
            /\ nodes[e.from].type \in HeadingTypes
            /\ Len(nodes[e.from].text) > 5
            /\ e.from # e.to
            /\ nodes[e.to].type \in {"p", "li"}
            /\ Contains(nodes[e.to].text, nodes[e.from].text)



\* C26: within one crawl run no URL is dequeued twice: the queue never holds
\* an entry twice nor an entry that is in the visited set, so every entry
\* taken from the queue is admitted and logged, and no URL is logged twice.
C26_QueueFreshAndDistinct ==
    /\ NoRepeats(queue)
    /\ Range(queue) \cap visitedUrls = {}
    /\ \A k \in 1..Len(queue) : shouldCrawl(queue[k], visitedUrls)
    /\ NoRepeats(crawlLog)
    /\ cpc \in {"extract", "links"} => currentUrl = crawlLog[Len(crawlLog)]

\* two pages have been crawled, the second linked to a page crawled before
\* and to pages that wait in the queue
C26_Witness ==
    /\ cpc = "loop"
    /\ Len(crawlLog) = 2
    /\ refused
    /\ Len(queue) >= 2



\* C27: the browser a crawl run launches is closed on every path by which
\* scrapeWebsite ends: across the retries of initializeServices at most one
\* browser is open at any time, only while scrapeWebsite runs, and none is
\* open once initializeServices has ended.
C27_BrowserClosedOnEveryPath ==
    /\ openBrowsers <= 1
    /\ openBrowsers = 1 => spc = "crawl"
    /\ spc \in {"done", "threw", "returned"} => openBrowsers = 0



\* C28: in the chat widget every send with a non-blank input adds one user
\* message followed by one bot message (the reply, or an error text when the
\* request fails), earlier messages are never removed or reordered, isLoading
\* is true exactly while the request is outstanding, and a send with a blank
\* input changes nothing.
C28_OneUserThenOneBotMessage ==
    /\ Len(answered) = Len(posted) - (IF wpc = "posting" THEN 1 ELSE 0)
    /\ Len(messages) = 1 + Len(posted) + Len(answered)
    /\ messages[1] = Greeting
    /\ \A k \in 1..Len(posted) :
         /\ Trim(posted[k]) # <<>>
         /\ messages[2 * k] = [text |-> posted[k], sender |-> "user"]
    /\ \A k \in 1..Len(answered) :
         /\ answered[k] \in Replies \cup ErrorTexts
         /\ messages[2 * k + 1] = [text |-> answered[k], sender |-> "bot"]
    /\ isLoading <=> wpc = "posting"
    /\ blankSend => shown = <<messages, input, isLoading>>

\* a request was answered, the next failed, and then a send with an input of
\* white space only was ignored
C28_Witness ==
    /\ Len(posted) = 2
    /\ Len(answered) = 2
    /\ answered[1] \in Replies
    /\ answered[2] \in ErrorTexts
    /\ Len(messages) = 5
    /\ blankSend
    /\ input = <<" ">>



\* C29: the add-node endpoint answers 400 and writes nothing to the graph
\* when userId or text is missing; when both are present it adds the user
\* node to the graph and responds with the created node.
C29_AddNodeAnswers ==
    apc = "answered" =>
        IF Not(reqBody.userId) \/ Not(reqBody.text)
        THEN resStatus = 400
        ELSE /\ resStatus = 200
             /\ graphWrites # <<>>
             /\ graphWrites[Len(graphWrites)] = reqBody
             /\ resJson = <<"node", reqBody>>


=============================================================================
